---------------------------- MODULE Spec2Model ----------------------------
(***************************************************************************)
(* A model of the notebook "Part 2 - Neural Networks in PyTorch            *)
(* (Exercises)": the networks it builds (the two Network classes and the   *)
(* nn.Sequential models), their forward pass, the in-place parameter       *)
(* initialisation, and softmax along dim=1.                                *)
(*                                                                         *)
(* A matrix is a sequence of rows, each a sequence of numbers; the batch   *)
(* bound to `images` is a tensor of any shape, held as its shape and its   *)
(* elements in storage order.                                              *)
(*                                                                         *)
(* A number is a float32 value, held as the integer its IEEE 754 binary32  *)
(* encoding spells without the sign bit, negated for a negative number:    *)
(* 1.0 is 16#3F800000, +inf is 16#7F800000, the subnormal 2^-149 is 1.     *)
(* The order of these integers is the order of the numbers.  Zero has no   *)
(* sign (-0.0 = 0.0 in float32) and there is a single NaN.  Every result   *)
(* is rounded to nearest, ties to even, as float32 rounds it, over the     *)
(* whole range: subnormal results, overflow to infinity.  exp is rounded   *)
(* from a 42-bit approximation from below, which gives the float32 nearest *)
(* to the true value (an exp routine accurate to 1 ulp may differ from it  *)
(* in the last place).                                                     *)
(***************************************************************************)
EXTENDS Integers, Sequences, FiniteSets, TLC

(***************************************************************************)
(* Bounds of the model.                                                    *)
(***************************************************************************)
\* The notebook's widths, scaled down: 784 inputs, 256 hidden units of class
\* Network, 10 classes.  hidden_sizes = [128, 64] is derived below.
input_size == 3
hidden_units == 2
output_size == 2
\* Largest number of rows of a batch (the notebook's batch size 64).
MaxRows == 2

(***************************************************************************)
(* float32 arithmetic.                                                     *)
(***************************************************************************)
\* IEEE 754 binary32: a 24-bit significand (23 bits stored) and an 8-bit
\* exponent field.
MantBits == 24
ExpBits == 8
HiddenBit == 2^(MantBits - 1)
MaxField == 2^ExpBits - 1
\* The exponent of the last place of a subnormal number, 2^-149.
MinExp == 3 - 2^(ExpBits - 1) - MantBits
One == (2^(ExpBits - 1) - 1) * HiddenBit
PInf == MaxField * HiddenBit
NInf == -PInf
NaN == PInf + HiddenBit \div 2

\* F(v) with v evaluated once.
Bind(v, F(_)) == CHOOSE z \in { F(w) : w \in {v} } : TRUE

IsNaN(a) == a = NaN
IsFinite(a) == a > NInf /\ a < PInf
Abs(a) == IF a < 0 THEN -a ELSE a
Sgn(a) == IF a < 0 THEN -1 ELSE 1
Larger(a, b) == IF a > b THEN a ELSE b

Pow2(n) == 2^n

\* The number of bits of n >= 0.
RECURSIVE BitLen(_)
BitLen(n) == IF n = 0 THEN 0 ELSE 1 + BitLen(n \div 2)

\* The exponent field, the significand m and the exponent e of a finite
\* magnitude b = m * 2^e.
Field(b) == b \div HiddenBit
Mant(b) == IF Field(b) = 0 THEN b ELSE HiddenBit + (b % HiddenBit)
Expo(b) == IF Field(b) = 0 THEN MinExp ELSE Field(b) - 1 + MinExp

\* Round-to-nearest, ties to even, of q + r/c.
RoundQR(q, r, c) ==
    IF 2 * r > c \/ (2 * r = c /\ q % 2 = 1) THEN q + 1 ELSE q

\* q with its last bit set when the bits lost below it are not all zero.
Jam(q, lost) == IF lost = 0 \/ q % 2 = 1 THEN q ELSE q + 1

\* n shifted right by k bits; the last bit kept is set when a one is lost.
ShiftRightJam(n, k) ==
    IF k = 0 THEN n
    ELSE IF k > 30 THEN (IF n = 0 THEN 0 ELSE 1)
    ELSE Jam(n \div Pow2(k), n % Pow2(k))

\* The magnitude m * 2^e, m <= 2^24 and e >= MinExp, in its encoding;
\* overflow gives PInf.
Pack(m, e) ==
    IF e - MinExp >= MaxField - 1 THEN PInf ELSE (e - MinExp) * HiddenBit + m

\* j with its last s bits rounded away, ties to even.
RoundLast(j, s) == RoundQR(j \div Pow2(s), j % Pow2(s), Pow2(s))

\* n * 2^e with its last sh bits rounded away; the bits below the last two
\* are jammed into them first.
RoundShift(n, e, sh) ==
    Pack(IF sh <= 0 THEN n * Pow2(-sh)
         ELSE IF sh <= 2 THEN RoundLast(n, sh)
         ELSE RoundLast(ShiftRightJam(n, sh - 2), 2),
         e + sh)

\* The magnitude n * 2^e rounded to 24 significant bits (fewer below 2^-126),
\* ties to even.  An odd n stands for any value strictly between n - 1 and
\* n + 1.
RoundMag(n, e) ==
    IF n = 0 THEN 0 ELSE RoundShift(n, e, Larger(BitLen(n) - MantBits, MinExp - e))

\* float32(k) for an integer k, and float32(k * 2^e).
Ldexp(k, e) == Sgn(k) * RoundMag(Abs(k), e)
FromInt(k) == Ldexp(k, 0)

FNeg(a) == IF IsNaN(a) THEN NaN ELSE -a

\* The sum of two finite non-zero numbers, big the one of larger magnitude:
\* the significands with three further bits, the smaller one aligned.
AddMag(big, small) ==
    Sgn(big)
    * RoundMag(Mant(Abs(big)) * 8
               + Sgn(big) * Sgn(small)
                 * ShiftRightJam(Mant(Abs(small)) * 8, Expo(Abs(big)) - Expo(Abs(small))),
               Expo(Abs(big)) - 3)

FAdd(a, b) ==
    IF IsNaN(a) \/ IsNaN(b) THEN NaN
    ELSE IF ~IsFinite(a) THEN (IF ~IsFinite(b) /\ b # a THEN NaN ELSE a)
    ELSE IF ~IsFinite(b) THEN b
    ELSE IF a = 0 THEN b
    ELSE IF b = 0 THEN a
    ELSE AddMag(IF Abs(a) >= Abs(b) THEN a ELSE b, IF Abs(a) >= Abs(b) THEN b ELSE a)

FSub(a, b) == FAdd(a, FNeg(b))

\* The significand of a non-zero magnitude shifted up to 24 bits, and the
\* exponent that goes with it.
NormMant(b) == Mant(b) * Pow2(MantBits - BitLen(Mant(b)))
NormExpo(b) == Expo(b) - (MantBits - BitLen(Mant(b)))

\* The product of two 24-bit significands, by 12-bit halves, shifted right by
\* 19 bits with the lost bits jammed: 27 to 29 bits.
Half12 == 2^(MantBits \div 2)
MulParts(hh, x, ll) ==
    Jam((hh + x \div Half12) * 32 + ((x % Half12) * Half12 + ll) \div Pow2(19),
        ((x % Half12) * Half12 + ll) % Pow2(19))
MulMant(a, b) ==
    MulParts((a \div Half12) * (b \div Half12),
             (a \div Half12) * (b % Half12) + (a % Half12) * (b \div Half12),
             (a % Half12) * (b % Half12))

FMul(a, b) ==
    IF IsNaN(a) \/ IsNaN(b) THEN NaN
    ELSE IF ~IsFinite(a) \/ ~IsFinite(b)
         THEN (IF a = 0 \/ b = 0 THEN NaN ELSE Sgn(a) * Sgn(b) * PInf)
    ELSE IF a = 0 \/ b = 0 THEN 0
    ELSE Sgn(a) * Sgn(b)
         * RoundMag(MulMant(NormMant(Abs(a)), NormMant(Abs(b))),
                    NormExpo(Abs(a)) + NormExpo(Abs(b)) + 19)

\* n further quotient bits of r / b (r < b < 2^24), appended to acc, and a
\* last bit set when the division leaves a remainder.
RECURSIVE DivBits(_, _, _, _)
DivBits(r, b, n, acc) ==
    IF n = 0 THEN 2 * acc + (IF r = 0 THEN 0 ELSE 1)
    ELSE IF 2 * r >= b THEN DivBits(2 * r - b, b, n - 1, 2 * acc + 1)
    ELSE DivBits(2 * r, b, n - 1, 2 * acc)

\* The quotient of two 24-bit significands to 27 fraction bits, jammed.
DivMant(a, b) == DivBits(a % b, b, MantBits + 3, a \div b)

FDiv(a, b) ==
    IF IsNaN(a) \/ IsNaN(b) THEN NaN
    ELSE IF ~IsFinite(a) THEN (IF ~IsFinite(b) THEN NaN ELSE Sgn(a) * Sgn(b) * PInf)
    ELSE IF ~IsFinite(b) THEN 0
    ELSE IF b = 0 THEN (IF a = 0 THEN NaN ELSE Sgn(a) * PInf)
    ELSE IF a = 0 THEN 0
    ELSE Sgn(a) * Sgn(b)
         * RoundMag(DivMant(NormMant(Abs(a)), NormMant(Abs(b))),
                    NormExpo(Abs(a)) - NormExpo(Abs(b)) - (MantBits + 4))

\* Fixed-point numbers for exp: four limbs of 14 bits, << a0, a1, a2, a3 >>
\* for a0 + a1/2^14 + a2/2^28 + a3/2^42.
LimbBits == 14
Limb == 2^LimbBits
FxZero == << 0, 0, 0, 0 >>
FxOne == << 1, 0, 0, 0 >>
FxUnit == << 0, 0, 0, 1 >>
FxHi(a) == a[1] * Limb + a[2]
FxLo(a) == a[3] * Limb + a[4]
FxOf(hi, lo) == << hi \div Limb, hi % Limb, lo \div Limb, lo % Limb >>
FxLess(a, b) == FxHi(a) < FxHi(b) \/ (FxHi(a) = FxHi(b) /\ FxLo(a) < FxLo(b))
FxAdd(a, b) ==
    FxOf(FxHi(a) + FxHi(b) + (FxLo(a) + FxLo(b)) \div (Limb * Limb),
         (FxLo(a) + FxLo(b)) % (Limb * Limb))
\* a - b, zero when b exceeds a.
FxSub(a, b) ==
    IF FxLess(a, b) THEN FxZero
    ELSE FxOf(FxHi(a) - FxHi(b) - (IF FxLo(a) < FxLo(b) THEN 1 ELSE 0),
              (FxLo(a) - FxLo(b) + Limb * Limb) % (Limb * Limb))
\* The distance between a and b.
FxDist(a, b) == FxSub(IF FxLess(a, b) THEN b ELSE a, IF FxLess(a, b) THEN a ELSE b)

\* The limbs << t0, t1, t2, t3, ... >>, each with the carry of the limb after
\* it, brought below 2^14 from the last up to the second; the limbs beyond
\* the fourth are dropped.
FxCarry(t, c4, c3, c2) ==
    << t[1] + (t[2] + c2) \div Limb, (t[2] + c2) % Limb, (t[3] + c3) % Limb,
       (t[4] + c4) % Limb >>
FxCarry2(t, c4, c3) == FxCarry(t, c4, c3, (t[3] + c3) \div Limb)
FxCarry3(t, c4) == FxCarry2(t, c4, (t[4] + c4) \div Limb)

\* The product of two fixed-point numbers, rounded down.
FxMul(a, b) ==
    FxCarry3(<< a[1] * b[1],
                a[1] * b[2] + a[2] * b[1],
                a[1] * b[3] + a[2] * b[2] + a[3] * b[1],
                a[1] * b[4] + a[2] * b[3] + a[3] * b[2] + a[4] * b[1] >>,
             (a[2] * b[4] + a[3] * b[3] + a[4] * b[2]
              + (a[3] * b[4] + a[4] * b[3] + (a[4] * b[4]) \div Limb) \div Limb) \div Limb)

\* A fixed-point number divided by a small integer, rounded down.
FxDiv(a, k) ==
    << a[1] \div k,
       ((a[1] % k) * Limb + a[2]) \div k,
       ((((a[1] % k) * Limb + a[2]) % k) * Limb + a[3]) \div k,
       ((((((a[1] % k) * Limb + a[2]) % k) * Limb + a[3]) % k) * Limb + a[4]) \div k >>

\* m * 2^e (m < 2^24, the product below 2^7) as a fixed-point number,
\* rounded down: m * 2^t over three limbs, t below 14, placed s limbs up.
FxPlace(mid, low, up) ==
    IF up THEN << mid \div Limb, mid % Limb, low % Limb, 0 >>
    ELSE << 0, mid \div Limb, mid % Limb, low % Limb >>
FxShifted(m, t, up) ==
    FxPlace((m \div Limb) * Pow2(t) + ((m % Limb) * Pow2(t)) \div Limb,
            (m % Limb) * Pow2(t), up)
FxFrom(m, e) ==
    IF e + 3 * LimbBits < -30 THEN FxZero
    ELSE IF e + 3 * LimbBits < 0 THEN FxOf(0, m \div Pow2(-(e + 3 * LimbBits)))
    ELSE FxShifted(m, (e + 3 * LimbBits) % LimbBits, e + 3 * LimbBits >= LimbBits)

\* Whether FxFrom(m, e) is m * 2^e itself.
FxExact(m, e) ==
    \/ e + 3 * LimbBits >= 0
    \/ e + 3 * LimbBits >= -30 /\ m % Pow2(-(e + 3 * LimbBits)) = 0

\* ln 2 to 56 bits, rounded down, in five limbs, and 2^14 / ln 2.
Ln2 == << 0, 11356, 8575, 8007, 3961 >>
InvLn2 == 23637

\* k * ln 2 as a fixed-point number, rounded down: less than two units of the
\* last limb below k * ln 2.
FxLn2Times(k) ==
    FxCarry3(<< k * Ln2[1], k * Ln2[2], k * Ln2[3], k * Ln2[4] >>, (k * Ln2[5]) \div Limb)

\* Number of terms of the series of exp.
ExpTerms == MantBits \div 2 + 1

\* 1 + t, or 1 - t.
FxOnePlus(t, neg) == IF neg THEN FxSub(FxOne, t) ELSE FxAdd(FxOne, t)

\* One step of the series of e^r, r between -0.36 and 0.36: from a bound
\* on 1 + r/(j+1) * (1 + r/(j+2) * (...)) to a bound on
\* 1 + r/j * (1 + r/(j+1) * (...)), given |r| between lo and hi, r negative
\* when neg is set.  For r >= 0 every bound is from below; for r < 0 the
\* bounds are from below at odd j (the quotient rounded up) and from above
\* at even j.
ExpStep(lo, hi, neg, j, acc) ==
    FxOnePlus(FxDiv(FxAdd(IF neg /\ j % 2 = 1 THEN << 0, 0, 0, j >> ELSE FxZero,
                          FxMul(IF neg /\ j % 2 = 1 THEN hi ELSE lo, acc)),
                    j),
              neg)

\* The steps j, j - 1, ..., 1 of the series.
RECURSIVE ExpSeries(_, _, _, _, _)
ExpSeries(lo, hi, neg, j, acc) ==
    IF j = 0 THEN acc
    ELSE Bind(ExpStep(lo, hi, neg, j, acc),
              LAMBDA s : ExpSeries(lo, hi, neg, j - 1, s))

\* The integer nearest to x / ln 2.
ExpNearest(x) ==
    ((x[1] * Pow2(7) + x[2] \div Pow2(7)) * InvLn2 + Pow2(20)) \div Pow2(21)

\* 2^e times the bound s from below, rounded: the limbs of s after the third
\* stand for bits that are not all zero.
ExpRound(s, e) ==
    RoundMag(2 * ((s[1] * Limb + s[2]) * Limb + s[3]) + 1, e - (2 * LimbBits + 1))

\* 2^k e^r or 2^-k e^-r (minus) for |r| = |x - k ln 2|, within two units of
\* d; over when x exceeds k ln 2.
ExpRemainder(minus, exact, k, over, d) ==
    ExpRound(ExpSeries(IF k # 0 /\ over THEN FxSub(d, FxAdd(FxUnit, FxUnit)) ELSE d,
                       IF k = 0 THEN (IF exact THEN d ELSE FxAdd(d, FxUnit))
                       ELSE IF over THEN d
                       ELSE FxAdd(d, FxAdd(FxUnit, FxUnit)),
                       minus = over,
                       ExpTerms,
                       IF minus = over /\ ExpTerms % 2 = 0 THEN FxZero ELSE FxOne),
             IF minus THEN -k ELSE k)

\* e^x or e^-x (minus) with x = k * ln 2 + r.
ExpReduce(minus, x, exact, k) ==
    ExpRemainder(minus, exact, k, ~FxLess(x, FxLn2Times(k)), FxDist(x, FxLn2Times(k)))

\* e^a for a finite non-zero a of magnitude below 2^7: a = k * ln 2 + r with
\* k the integer nearest to a / ln 2, e^a = 2^k * e^r.
ExpFinite(a) ==
    ExpReduce(a < 0,
              FxFrom(Mant(Abs(a)), Expo(Abs(a))),
              FxExact(Mant(Abs(a)), Expo(Abs(a))),
              ExpNearest(FxFrom(Mant(Abs(a)), Expo(Abs(a)))))

\* torch.exp
FExp(a) ==
    IF IsNaN(a) THEN NaN
    ELSE IF a = PInf THEN PInf
    ELSE IF a = NInf THEN 0
    ELSE IF a = 0 THEN One
    ELSE IF Abs(a) >= Ldexp(1, 7) THEN (IF a > 0 THEN PInf ELSE 0)
    ELSE ExpFinite(a)

\* The larger of two numbers as torch.max takes it: NaN wins.
FMax(a, b) == IF IsNaN(a) \/ IsNaN(b) THEN NaN ELSE IF a >= b THEN a ELSE b

\* torch.sigmoid: 1 / (1 + exp(-a))
FSigmoid(a) == FDiv(One, FAdd(One, FExp(FNeg(a))))

\* max(0, a), torch.relu
FRelu(a) == IF IsNaN(a) THEN NaN ELSE IF a > 0 THEN a ELSE 0

(***************************************************************************)
(* Tensors: a 2-D tensor is a non-empty sequence of rows of equal length.  *)
(***************************************************************************)
Rows(x) == Len(x)
Cols(x) == Len(x[1])
Shape(x) == << Rows(x), Cols(x) >>
Vec(f) == f \o << >>
Transpose(x) == Vec([k \in 1..Cols(x) |-> Vec([i \in 1..Rows(x) |-> x[i][k]])])
MapT(F(_), x) == Vec([i \in 1..Rows(x) |-> Vec([k \in 1..Cols(x) |-> F(x[i][k])])])
AllFinite(x) == \A i \in 1..Rows(x) : \A k \in 1..Cols(x) : IsFinite(x[i][k])

\* The result of a call: the tensor it returns, or the exception it raises.
Ok(t) == [err |-> "none", val |-> t]
Raise(e) == [err |-> e, val |-> << >>]

\* Sum and maximum of a vector, accumulated left to right.
RECURSIVE SumTo(_, _)
SumTo(v, n) == IF n = 0 THEN 0 ELSE FAdd(SumTo(v, n - 1), v[n])
VecSum(v) == SumTo(v, Len(v))

RECURSIVE MaxTo(_, _)
MaxTo(v, n) == IF n = 1 THEN v[1] ELSE FMax(MaxTo(v, n - 1), v[n])
VecMax(v) == MaxTo(v, Len(v))

Dot(u, w) == VecSum(Vec([k \in 1..Len(u) |-> FMul(u[k], w[k])]))

(***************************************************************************)
(* Modules.                                                                *)
(***************************************************************************)
\* Every entry of e divided by s, and by the sum of the entries.
DivideAll(e, s) == Vec([j \in 1..Len(e) |-> FDiv(e[j], s)])
DivideBySum(e) == DivideAll(e, VecSum(e))

\* exp(v - m), entry by entry.
ExpShifted(v, m) == Vec([j \in 1..Len(v) |-> FExp(FSub(v[j], m))])

\* SoftmaxVec dividing the scores themselves by their sum, without exp.
SoftmaxVecNoExp(v) == DivideBySum(v)

\* SoftmaxVec without the subtraction of the maximum.
SoftmaxVecNoShift(v) == DivideBySum(Vec([j \in 1..Len(v) |-> FExp(v[j])]))

\* SoftmaxVec putting all the mass on the first largest score.
SoftmaxVecHard(v) ==
    LET m == VecMax(v)
        first == CHOOSE j \in 1..Len(v) : v[j] = m /\ \A k \in 1..(j - 1) : v[k] # m
    IN  IF IsNaN(m) THEN Vec([j \in 1..Len(v) |-> NaN])
        ELSE Vec([j \in 1..Len(v) |-> IF j = first THEN One ELSE 0])

\* softmax of one vector: exp(v - max v) / sum exp(v - max v)
SoftmaxVec(v) == DivideBySum(ExpShifted(v, VecMax(v)))

\* softmax of every row, and the tensor with the dimension dim laid along
\* its rows (the same operation takes it back).
SoftmaxRows(x) == Vec([i \in 1..Rows(x) |-> SoftmaxVec(x[i])])
AlongDim(x, dim) == IF dim \in {1, -1} THEN x ELSE Transpose(x)

\* The first n rows of x, one after the other.
RECURSIVE ConcatRows(_, _)
ConcatRows(x, n) == IF n = 0 THEN << >> ELSE ConcatRows(x, n - 1) \o x[n]

\* Softmax normalising over all the entries of the tensor at once.
SoftmaxWholeTensor(x, dim) ==
    LET flat == SoftmaxVec(ConcatRows(x, Rows(x)))
    IN  Ok(Vec([i \in 1..Rows(x) |->
               Vec([j \in 1..Cols(x) |-> flat[(i - 1) * Cols(x) + j]])]))

\* Softmax normalising over the rows (dim=0) whatever dim says.
SoftmaxDim0(x, dim) == Ok(Transpose(SoftmaxRows(Transpose(x))))

\* nn.Softmax(dim) / F.softmax(x, dim) on a 2-D tensor: dim=1 (or -1, the
\* last dimension) normalises each row over its columns, dim=0 (or -2) each
\* column over the rows; any other dim is out of range, an IndexError.
Softmax(x, dim) ==
    IF dim \in {1, -1, 0, -2} THEN Ok(AlongDim(SoftmaxRows(AlongDim(x, dim)), dim))
    ELSE Raise("IndexError")

\* The values the random initialisation of a parameter draws from, and the
\* pseudo-random draw number n of a generator seeded with seed.
InitVals == << Ldexp(1, -1), Ldexp(-1, -2), Ldexp(1, -2), Ldexp(-1, -1), Ldexp(1, -3) >>
Draw(seed, n) == InitVals[((seed * 3 + n) % Len(InitVals)) + 1]

\* nn.Linear(in_features, out_features): weight of shape (out, in) and bias
\* of length out, both randomly initialised.
Linear(in_features, out_features, seed) ==
    [kind |-> "Linear", in_features |-> in_features, out_features |-> out_features,
     weight |-> [j \in 1..out_features |->
                    [k \in 1..in_features |-> Draw(seed, 2 * j + 3 * k)]],
     bias |-> [j \in 1..out_features |-> Draw(seed, 4 * j + 1)]]

\* nn.Linear(in_features, out_features) after weight.data.fill_(w) and
\* bias.data.fill_(b).
FilledLinear(in_features, out_features, w, b) ==
    [kind |-> "Linear", in_features |-> in_features, out_features |-> out_features,
     weight |-> [j \in 1..out_features |-> [k \in 1..in_features |-> w]],
     bias |-> [j \in 1..out_features |-> b]]

Sigmoid == [kind |-> "Sigmoid"]
ReLU == [kind |-> "ReLU"]
\* SoftmaxModule always built with dim=0.
SoftmaxModuleDim0(dim) == [kind |-> "Softmax", dim |-> 0]
SoftmaxModule(dim) == [kind |-> "Softmax", dim |-> dim]

\* LinearApply adding the bias to the first row only.
LinearApplyBiasOnce(l, x) ==
    IF Cols(x) # l.in_features THEN Raise("RuntimeError")
    ELSE Ok(Vec([i \in 1..Rows(x) |->
                Vec([j \in 1..l.out_features |->
                    FAdd(Dot(x[i], l.weight[j]), IF i = 1 THEN l.bias[j] ELSE 0)])]))

\* LinearApply without the size check: the columns the input and the weight
\* do not share are dropped.
LinearApplyUnchecked(l, x) ==
    LET w == IF Cols(x) < l.in_features THEN Cols(x) ELSE l.in_features
    IN  Ok(Vec([i \in 1..Rows(x) |->
               Vec([j \in 1..l.out_features |->
                   FAdd(Dot(SubSeq(x[i], 1, w), SubSeq(l.weight[j], 1, w)), l.bias[j])])]))

\* nn.Linear.forward: x W^T + b, a size-mismatch RuntimeError when the last
\* dimension of x is not in_features.
LinearApply(l, x) ==
    IF Cols(x) # l.in_features THEN Raise("RuntimeError")
    ELSE Ok(Vec([i \in 1..Rows(x) |->
                Vec([j \in 1..l.out_features |-> FAdd(Dot(x[i], l.weight[j]), l.bias[j])])]))

\* Apply with ReLU built into every affine layer.
ApplyReluInLinear(m, x) ==
    CASE m.kind = "Linear" ->
            IF LinearApply(m, x).err # "none" THEN LinearApply(m, x)
            ELSE Ok(MapT(FRelu, LinearApply(m, x).val))
      [] m.kind = "Sigmoid" -> Ok(MapT(FSigmoid, x))
      [] m.kind = "ReLU" -> Ok(MapT(FRelu, x))
      [] m.kind = "Softmax" -> Softmax(x, m.dim)

\* module(x)
Apply(m, x) ==
    CASE m.kind = "Linear" -> LinearApply(m, x)
      [] m.kind = "Sigmoid" -> Ok(MapT(FSigmoid, x))
      [] m.kind = "ReLU" -> Ok(MapT(FRelu, x))
      [] m.kind = "Softmax" -> Softmax(x, m.dim)

\* x = module(x) after the statements before it: an exception ends the call.
Then(r, m) == Bind(r, LAMBDA v : IF v.err # "none" THEN v ELSE Apply(m, v.val))

(***************************************************************************)
(* Networks.                                                               *)
(***************************************************************************)
\* The hidden widths of the nn.Sequential models, hidden_sizes = [128, 64]:
\* the second half the first.
hidden_sizes == << hidden_units, hidden_units - 1 >>

\* class Network(nn.Module).__init__, with the operations stored as
\* attributes (variant "Network") or taken from torch.nn.functional
\* (variant "NetworkF").
NetworkInit(variant, seed) ==
    IF variant = "Network"
    THEN [kind |-> "Network",
          hidden |-> Linear(input_size, hidden_units, seed),
          output |-> Linear(hidden_units, output_size, seed + 1),
          sigmoid |-> Sigmoid,
          softmax |-> SoftmaxModule(1)]
    ELSE [kind |-> "NetworkF",
          hidden |-> Linear(input_size, hidden_units, seed),
          output |-> Linear(hidden_units, output_size, seed + 1)]

\* The six operations handed to nn.Sequential.
Stages(seed) ==
    << Linear(input_size, hidden_sizes[1], seed),
       ReLU,
       Linear(hidden_sizes[1], hidden_sizes[2], seed + 1),
       ReLU,
       Linear(hidden_sizes[2], output_size, seed + 2),
       SoftmaxModule(1) >>

\* nn.Sequential(*modules) and nn.Sequential(OrderedDict(...)): the modules
\* are stored in the order given, under the names given (their indices when
\* none are given).  Nothing about them is checked.
IndexNames == << "0", "1", "2", "3", "4", "5" >>
Sequential(names, mods) == [kind |-> "Sequential", names |-> names, mods |-> mods]

\* The (name, module) pairs handed to OrderedDict with 'fc2' written 'fc1'.
NamedStagesDuplicateKey(seed) ==
    << << "fc1", Linear(input_size, hidden_sizes[1], seed) >>,
       << "relu1", ReLU >>,
       << "fc1", Linear(hidden_sizes[1], hidden_sizes[2], seed + 1) >>,
       << "relu2", ReLU >>,
       << "output", Linear(hidden_sizes[2], output_size, seed + 2) >>,
       << "softmax", SoftmaxModule(1) >> >>

\* The six (name, module) pairs handed to OrderedDict.
NamedStages(seed) ==
    << << "fc1", Linear(input_size, hidden_sizes[1], seed) >>,
       << "relu1", ReLU >>,
       << "fc2", Linear(hidden_sizes[1], hidden_sizes[2], seed + 1) >>,
       << "relu2", ReLU >>,
       << "output", Linear(hidden_sizes[2], output_size, seed + 2) >>,
       << "softmax", SoftmaxModule(1) >> >>

\* OrderedDict(pairs): the keys in the order of their first appearance, each
\* with the value given last for it.
DictPut(d, key, m) ==
    IF \E i \in 1..Len(d.names) : d.names[i] = key
    THEN [d EXCEPT !.mods[CHOOSE i \in 1..Len(d.names) : d.names[i] = key] = m]
    ELSE [names |-> Append(d.names, key), mods |-> Append(d.mods, m)]
RECURSIVE DictOf(_, _)
DictOf(pairs, n) ==
    IF n = 0 THEN [names |-> << >>, mods |-> << >>]
    ELSE DictPut(DictOf(pairs, n - 1), pairs[n][1], pairs[n][2])
OrderedDict(pairs) == DictOf(pairs, Len(pairs))

\* The operations forward applies, in the order of its statements:
\* Network.forward (operations as attributes): hidden, sigmoid, output, softmax;
\* Network.forward (functional): F.sigmoid(self.hidden(x)), then
\* F.softmax(self.output(x), dim=1);
\* nn.Sequential.forward: for module in self: input = module(input).
ForwardOps(net) ==
    CASE net.kind = "Network" -> << net.hidden, net.sigmoid, net.output, net.softmax >>
      [] net.kind = "NetworkF" -> << net.hidden, Sigmoid, net.output, SoftmaxModule(1) >>
      [] net.kind = "Sequential" -> net.mods

\* x = op(x) for the first n operations, one after the other.
RECURSIVE Run(_, _, _)
Run(ops, n, x) == IF n = 0 THEN Ok(x) ELSE Then(Run(ops, n - 1, x), ops[n])

\* model.forward(x)
Forward(net, x) == Run(ForwardOps(net), Len(ForwardOps(net)), x)

(***************************************************************************)
(* The notebook's state and cells.                                         *)
(***************************************************************************)
VARIABLES
    model,          \* the network bound to `model`
    images,         \* the tensor bound to `images`: its shape and its
                    \* elements in storage (row-major) order
    bound,          \* the hyperparameter names bound so far, among
                    \* input_size, hidden_sizes and output_size
    ret,            \* what the forward call of the last cell returned (the
                    \* value bound to `ps`); << >> when the cell made no such
                    \* call or the call raised
    err,            \* the exception the last cell raised, "none" if none
    last,           \* the cell that ran last
    logits,         \* the score matrix last handed to the softmax module
                    \* on its own; << >> before the first such call
    probs,          \* what the module returned for it
    parts           \* the last evaluation of a batch by row ranges: the
                    \* batch, and for each range the network forward ran
                    \* on and what it returned

vars == << model, images, bound, ret, err, last, logits, probs, parts >>

Seeds == 0..1

\* Pixels after transforms.Normalize((0.5,), (0.5,)) lie in [-1, 1].
PixelVals == << FromInt(-1), Ldexp(1, -1), 0, FromInt(1), Ldexp(-1, -1) >>

\* A tensor: its shape and its elements in storage order.
Tensor(shape, data) == [shape |-> shape, data |-> data]

\* images, labels = dataiter.next(): n images of one channel, input_size
\* rows of one pixel each (28 by 28 in the notebook, 784 = input_size
\* pixels).  With seed 0 the images of the batch are all the same image.
Loaded(n, seed) ==
    Tensor(<< n, 1, input_size, 1 >>,
           [e \in 1..(n * input_size) |->
               PixelVals[((seed * (2 + 3 * ((e - 1) \div input_size))
                           + ((e - 1) % input_size)) % Len(PixelVals)) + 1]])
RawBatches == { Loaded(MaxRows, seed) : seed \in Seeds }

\* A batch loaded and resized by images.resize_(n, 1, f): n images of one
\* row of f pixels.
Batch(n, f, seed) ==
    Tensor(<< n, 1, f >>,
           [e \in 1..(n * f) |->
               PixelVals[((seed * 2 + 3 * (((e - 1) \div f) + 1) + ((e - 1) % f) + 1)
                          % Len(PixelVals)) + 1]])
\* The batches a forward cell may load and resize: MaxRows images, the
\* loader's batch size, of a feature width that is the network's or one off
\* it.
BatchWidths == (input_size - 1)..(input_size + 1)
Batches == { Batch(MaxRows, f, seed) : f \in BatchWidths, seed \in Seeds }

\* images[img_idx, :] of a tensor of shape (N, R, C): the (R, C) matrix at
\* index img_idx of the first dimension, (1, F) after the resize.
img_idx == 0
SliceAt(t, idx, r, c) ==
    Vec([i \in 1..r |-> SubSeq(t.data, idx * r * c + (i - 1) * c + 1, idx * r * c + i * c)])
Slice(t, idx) == SliceAt(t, idx, t.shape[2], t.shape[3])

\* images.flatten(1): the matrix of shape[0] rows whose row i holds the
\* elements of image i in storage order.
FlattenTo(t, w) == Vec([i \in 1..t.shape[1] |-> SubSeq(t.data, (i - 1) * w + 1, i * w)])
Flatten1(t) == FlattenTo(t, Len(t.data) \div t.shape[1])

\* The input handed to forward by the cell that ran last.
FwdCells == { "forward", "sequential", "batch" }
FwdInput == IF last = "batch" THEN Flatten1(images) ELSE Slice(images, img_idx)

\* The names a network holds its modules under: the attributes __init__
\* assigns, or the names nn.Sequential stores its modules under.
ModuleNames(net) ==
    CASE net.kind = "Network" -> << "hidden", "output", "sigmoid", "softmax" >>
      [] net.kind = "NetworkF" -> << "hidden", "output" >>
      [] net.kind = "Sequential" -> net.names

\* model.<name>: whether the network holds a module under the name, and the
\* place of the module in an nn.Sequential.
HasName(net, name) == \E i \in 1..Len(ModuleNames(net)) : ModuleNames(net)[i] = name
IndexOf(net, name) == CHOOSE i \in 1..Len(net.names) : net.names[i] = name

\* tensor.fill_(v) and tensor.normal_(std=0.01), in place.
Fill(t, v) == [j \in 1..Len(t) |-> v]
NormalVals == << Ldexp(1, -7), Ldexp(-1, -6), Ldexp(-1, -8), Ldexp(1, -6) >>
Normal(w) ==
    [j \in 1..Len(w) |->
        [k \in 1..Len(w[j]) |-> NormalVals[((j + 2 * k) % Len(NormalVals)) + 1]]]

\* ModuleAfter drawing the weight of an affine layer anew on every call.
ModuleAfterReinit(m) == IF m.kind = "Linear" THEN [m EXCEPT !.weight = Normal(@)] ELSE m

\* A module after module(x): the forward of nn.Linear, nn.Sigmoid, nn.ReLU
\* and nn.Softmax assigns no attribute of the module.
ModuleAfter(m) == m

\* The network after forward: its statements rebind the local x only, so
\* each module is as its own forward leaves it.
NetAfter(net) ==
    CASE net.kind = "Network" ->
            [net EXCEPT !.hidden = ModuleAfter(@), !.output = ModuleAfter(@),
                        !.sigmoid = ModuleAfter(@), !.softmax = ModuleAfter(@)]
      [] net.kind = "NetworkF" ->
            [net EXCEPT !.hidden = ModuleAfter(@), !.output = ModuleAfter(@)]
      [] net.kind = "Sequential" ->
            [net EXCEPT !.mods = Vec([i \in 1..Len(@) |-> ModuleAfter(@[i])])]

\* ArgAfter with the activations and softmax working in place.
ArgAfterInPlace(m, x) == IF m.kind = "Linear" THEN x ELSE Apply(m, x).val

\* The argument of module(x) after the call: no module of the notebook works
\* in place (nn.ReLU() has inplace=False), so it is the tensor handed in.
ArgAfter(m, x) == x

\* The tensor handed to forward, after forward: what its first module left.
InputAfter(net, x) ==
    IF Len(ForwardOps(net)) = 0 THEN x ELSE ArgAfter(ForwardOps(net)[1], x)

\* images after a call on images[idx,:], a view of it: the elements of the
\* view are the elements of images at index idx, whatever the call left
\* in them.
SliceAfter(t, idx, s) ==
    [t EXCEPT !.data = SubSeq(@, 1, idx * Rows(s) * Cols(s))
                       \o ConcatRows(s, Rows(s))
                       \o SubSeq(@, (idx + 1) * Rows(s) * Cols(s) + 1, Len(@))]

\* images after a call on images.flatten(1), a view of it: the shape of
\* images stays, its elements are those of the view.
FlatAfter(t, s) == [t EXCEPT !.data = ConcatRows(s, Rows(s))]

\* An evaluation by row ranges: the (N, F) batch being evaluated, the
\* network it started on (base), the row after which the batch is cut, the
\* ranges evaluated so far, the network each was evaluated on (net) and what
\* forward returned for it (lo, hi), and whether a range was evaluated on
\* parameters other than base's.  cut = 0: none in progress.
NoParts == [batch |-> << >>, base |-> << >>, cut |-> 0, done |-> {}, dirty |-> FALSE,
            net |-> [lo |-> << >>, hi |-> << >>], lo |-> << >>, hi |-> << >>]
Ranges == {"lo", "hi"}

\* The names the nn.Sequential cell binds before it builds the network.
SizeNames == { "input_size", "hidden_sizes", "output_size" }

\* Rows a+1..b of an (N, F) matrix, and the range below or above the cut.
RowRange(x, a, b) == SubSeq(x, a + 1, b)
RangeOf(x, cut, w) == IF w = "lo" THEN RowRange(x, 0, cut) ELSE RowRange(x, cut, Rows(x))

Init ==
    /\ \E seed \in Seeds : model = NetworkInit("Network", seed)
    /\ images \in RawBatches
    /\ bound = {}
    /\ ret = << >>
    /\ err = "none"
    /\ last = "init"
    /\ logits = << >>
    /\ probs = << >>
    /\ parts = NoParts

\* model = Network()
NewNetwork(variant, seed) ==
    /\ model' = NetworkInit(variant, seed)
    /\ ret' = << >>
    /\ err' = "none"
    /\ last' = "network"
    /\ UNCHANGED << images, bound, logits, probs, parts >>

\* model.fc1.bias.data.fill_(0)
FillBias ==
    /\ IF HasName(model, "fc1")
       THEN /\ model' = [model EXCEPT !.mods[IndexOf(model, "fc1")].bias = Fill(@, 0)]
            /\ err' = "none"
       ELSE /\ model' = model
            /\ err' = "AttributeError"
    /\ ret' = << >>
    /\ last' = "fill"
    /\ UNCHANGED << images, bound, logits, probs, parts >>

\* model.fc1.weight.data.normal_(std=0.01)
NormalWeight ==
    /\ IF HasName(model, "fc1")
       THEN /\ model' = [model EXCEPT !.mods[IndexOf(model, "fc1")].weight = Normal(@)]
            /\ err' = "none"
       ELSE /\ model' = model
            /\ err' = "AttributeError"
    /\ ret' = << >>
    /\ last' = "normal"
    /\ UNCHANGED << images, bound, logits, probs, parts >>

\* weight.data.fill_(0) and bias.data.fill_(0) on one module.
ZeroLinear(m) ==
    IF m.kind = "Linear"
    THEN [m EXCEPT !.weight = Vec([j \in 1..Len(@) |-> Vec(Fill(@[j], 0))]),
                   !.bias = Vec(Fill(@, 0))]
    ELSE m

\* fill_(0) on every weight and bias of the model.
ZeroAll ==
    /\ model' = CASE model.kind = "Sequential" ->
                        [model EXCEPT !.mods = Vec([i \in 1..Len(@) |-> ZeroLinear(@[i])])]
                   [] OTHER ->
                        [model EXCEPT !.hidden = ZeroLinear(@), !.output = ZeroLinear(@)]
    /\ ret' = << >>
    /\ err' = "none"
    /\ last' = "zero"
    /\ UNCHANGED << images, bound, logits, probs, parts >>

\* ps = ...: the value returned is bound, or the exception raised ends the
\* cell.
Returns(r) ==
    /\ err' = r.err
    /\ ret' = r.val

\* Call keeping the result of the call before it: forward answers from the
\* result it holds when it holds one.
CallCached(net, x) == Returns(IF ret # << >> THEN Ok(ret) ELSE Forward(net, x))

\* ps = net.forward(x): the value returned, or the exception raised.
Call(net, x) == Returns(Forward(net, x))

\* images, labels = dataiter.next(): a batch is loaded, not resized.
LoadImages(raw) ==
    /\ images' = raw
    /\ ret' = << >>
    /\ err' = "none"
    /\ last' = "load"
    /\ UNCHANGED << model, bound, logits, probs, parts >>

\* The forward-pass cell: a batch is loaded and resized, then
\* ps = model.forward(images[img_idx,:]).
ForwardPass(batch) ==
    /\ Call(model, Slice(batch, img_idx))
    /\ images' = SliceAfter(batch, img_idx, InputAfter(model, Slice(batch, img_idx)))
    /\ model' = NetAfter(model)
    /\ last' = "forward"
    /\ UNCHANGED << bound, logits, probs, parts >>

\* forward on the batch bound to images as an (N, F) matrix,
\* images.flatten(1).
ForwardBatch ==
    /\ Call(model, Flatten1(images))
    /\ images' = FlatAfter(images, InputAfter(model, Flatten1(images)))
    /\ model' = NetAfter(model)
    /\ last' = "batch"
    /\ UNCHANGED << bound, logits, probs, parts >>

\* The nn.Sequential cell: bind the hyperparameters, build the model, load
\* and resize a batch, forward one image.
SequentialCell(seed, batch) ==
    /\ bound' = bound \cup SizeNames
    /\ model' = NetAfter(Sequential(IndexNames, Stages(seed)))
    /\ images' = SliceAfter(batch, img_idx,
                            InputAfter(Sequential(IndexNames, Stages(seed)),
                                       Slice(batch, img_idx)))
    /\ Call(Sequential(IndexNames, Stages(seed)), Slice(batch, img_idx))
    /\ last' = "sequential"
    /\ UNCHANGED << logits, probs, parts >>

\* The nn.Sequential(OrderedDict(...)) cell: it reads input_size,
\* hidden_sizes and output_size, bound by the nn.Sequential cell only; with
\* a name unbound the first nn.Linear(...) expression raises NameError and
\* model stays bound to what it was.
NamedSequentialCell(seed) ==
    /\ IF SizeNames \subseteq bound
       THEN /\ model' = Sequential(OrderedDict(NamedStages(seed)).names,
                                   OrderedDict(NamedStages(seed)).mods)
            /\ err' = "none"
       ELSE /\ model' = model
            /\ err' = "NameError"
    /\ ret' = << >>
    /\ last' = "named"
    /\ UNCHANGED << images, bound, logits, probs, parts >>

\* The batch bound to images, as the (N, F) matrix images.flatten(1), is
\* split after row cut, to be evaluated in two row ranges.
SplitBatch(cut) ==
    /\ cut \in 1..(images.shape[1] - 1)
    /\ parts' = [NoParts EXCEPT !.batch = Flatten1(images), !.base = model, !.cut = cut]
    /\ ret' = << >>
    /\ err' = "none"
    /\ last' = "split"
    /\ UNCHANGED << model, images, bound, logits, probs >>

\* forward on one of the two row ranges of the batch, whichever has not been
\* evaluated yet, on the parameters as they are now.
ForwardRange(w) ==
    /\ parts.cut > 0
    /\ w \notin parts.done
    /\ Call(model, RangeOf(parts.batch, parts.cut, w))
    /\ parts' = [parts EXCEPT ![w] = ret',
                              !.net[w] = model,
                              !.done = @ \cup {w},
                              !.dirty = @ \/ model # parts.base]
    /\ model' = NetAfter(model)
    /\ last' = "range"
    /\ UNCHANGED << images, bound, logits, probs >>

(***************************************************************************)
(* The softmax module on its own.                                          *)
(***************************************************************************)
\* Score matrices handed to softmax, of one row (the scores of one image)
\* or of MaxRows rows (those of a batch): patterned finite scores, rows of
\* equal scores, scores 2^-19 apart, each of these with a scalar added to
\* every entry, and matrices with one non-finite entry.
ScoreVals == << 0, FromInt(1), FromInt(-1), Ldexp(3, -1), Ldexp(1, -19), FromInt(-2) >>
Scores(n, c, seed) ==
    [i \in 1..n |-> [j \in 1..c |-> ScoreVals[((seed + 2 * i + j) % Len(ScoreVals)) + 1]]]
Filled(n, c, v) == [i \in 1..n |-> [j \in 1..c |-> v]]
WithEntry(x, i, j, v) == [x EXCEPT ![i][j] = v]
ClassCounts == 1..output_size
RowCounts == {1, MaxRows}
FiniteScores ==
    { Scores(n, c, seed) : n \in RowCounts, c \in ClassCounts, seed \in 0..2 }
    \cup { Filled(n, c, v) : n \in RowCounts, c \in ClassCounts, v \in {0, Ldexp(5, -2)} }
NonFiniteScores ==
    { WithEntry(Scores(n, c, 0), n, 1, v) :
        n \in RowCounts, c \in ClassCounts, v \in {PInf, NInf, NaN} }

\* The scalars added to every score.
Shifts == { FromInt(1), FromInt(-3), FromInt(32) }

\* x + c: the scalar is added to every entry.
AddScalar(x, c) == Vec([i \in 1..Rows(x) |-> Vec([j \in 1..Cols(x) |-> FAdd(x[i][j], c)])])

ShiftedScores == { AddScalar(x, c) : x \in FiniteScores, c \in Shifts }
ScoreMatrices == FiniteScores \cup ShiftedScores \cup NonFiniteScores

\* softmax over the classes of each example, as nn.Softmax(dim=1) and
\* F.softmax(x, dim=1) compute it: the value returned, or the exception
\* raised.
Normalize(scores) == Softmax(scores, 1)

\* self.softmax(x): the value returned, or the exception raised.
Yields(r) ==
    /\ err' = r.err
    /\ probs' = r.val

\* self.softmax(x), the nn.Softmax(dim=1) module called on a score matrix.
SoftmaxCall(x) ==
    /\ logits' = ArgAfter(SoftmaxModule(1), x)
    /\ Yields(Normalize(x))
    /\ last' = "softmax"
    /\ UNCHANGED << model, images, bound, ret, parts >>

(***************************************************************************)
(* nn.Sequential on any list of operations.                                *)
(***************************************************************************)
\* Lists of operations other than the notebook's: none at all, a single
\* activation, a single layer, two layers with no activation between them
\* (randomly initialised, and filled with a weight of 2^-23 under a bias of
\* 8), two layers with an activation between them, and layers whose widths
\* do not chain.
StageLists ==
    { << >>,
      << ReLU >>,
      << Linear(input_size, output_size, 0) >>,
      << Linear(input_size, hidden_units, 1) >>,
      << FilledLinear(input_size, output_size, Ldexp(1, -23), FromInt(8)) >>,
      << Linear(input_size, hidden_units, 0), Linear(hidden_units, output_size, 1) >>,
      << FilledLinear(input_size, hidden_units, Ldexp(1, -23), FromInt(8)),
         FilledLinear(hidden_units, output_size, FromInt(1), FromInt(-(8 * hidden_units))) >>,
      << Linear(input_size, hidden_units, 0), ReLU, Linear(hidden_units, output_size, 1) >>,
      << Linear(input_size, hidden_units, 0), Sigmoid, Linear(hidden_units, output_size, 1) >>,
      << Linear(input_size, hidden_units, 0), ReLU, Linear(hidden_units + 1, output_size, 1) >>,
      << Linear(input_size, hidden_units, 0), Linear(input_size, output_size, 1),
         SoftmaxModule(1) >> }

\* model = nn.Sequential(*mods)
BuildSequential(mods) ==
    /\ model' = Sequential(SubSeq(IndexNames, 1, Len(mods)), mods)
    /\ ret' = << >>
    /\ err' = "none"
    /\ last' = "build"
    /\ UNCHANGED << images, bound, logits, probs, parts >>

(***************************************************************************)
(* Specifications.                                                         *)
(***************************************************************************)
\* The cells that build, initialise and run the networks.
Next ==
    \/ \E variant \in {"Network", "NetworkF"}, seed \in Seeds : NewNetwork(variant, seed)
    \/ FillBias
    \/ NormalWeight
    \/ \E raw \in RawBatches : LoadImages(raw)
    \/ \E batch \in Batches : ForwardPass(batch)
    \/ ForwardBatch
    \/ \E seed \in Seeds, batch \in Batches : SequentialCell(seed, batch)
    \/ \E seed \in Seeds : NamedSequentialCell(seed)

Spec == Init /\ [][Next]_vars

\* The softmax module alone, called on every score matrix in any order.
NextNorm == \E x \in ScoreMatrices : SoftmaxCall(x)

SpecNorm == Init /\ [][NextNorm]_vars

\* The cells of Spec, and nn.Sequential on any list of operations.
NextBuild ==
    \/ Next
    \/ \E mods \in StageLists : BuildSequential(mods)

SpecBuild == Init /\ [][NextBuild]_vars

\* The cells of Spec, and fill_(0) on all the parameters.
NextZero ==
    \/ Next
    \/ ZeroAll

SpecZero == Init /\ [][NextZero]_vars

\* The batch loaded evaluated by row ranges in either order, between cells
\* that load a batch, build a network, write its parameters, call forward or
\* call softmax.
NextPar ==
    \/ \E seed \in Seeds : NewNetwork("Network", seed)
    \/ ZeroAll
    \/ \E raw \in RawBatches : LoadImages(raw)
    \/ ForwardBatch
    \/ SoftmaxCall(Filled(1, output_size, 0))
    \/ \E cut \in 1..MaxRows : SplitBatch(cut)
    \/ \E w \in Ranges : ForwardRange(w)

SpecPar == Init /\ [][NextPar]_vars

\* nn.Sequential on any list of operations, evaluated by row ranges.
NextCollapse ==
    \/ \E mods \in StageLists : BuildSequential(mods)
    \/ \E cut \in 1..MaxRows : SplitBatch(cut)
    \/ \E w \in Ranges : ForwardRange(w)

SpecCollapse == Init /\ [][NextCollapse]_vars

\* Calls that break a contract of the spec: nn.Sequential on any list,
\* forward on the batch loaded, softmax on scores with a non-finite entry.
NextErr ==
    \/ \E mods \in StageLists : BuildSequential(mods)
    \/ \E batch \in Batches : ForwardPass(batch)
    \/ ForwardBatch
    \/ \E x \in NonFiniteScores : SoftmaxCall(x)

SpecErr == Init /\ [][NextErr]_vars

(***************************************************************************)
(* Properties.                                                             *)
(***************************************************************************)
\* The affine layers of a network in the order forward applies them, its
\* declared input width (of the first) and output width (of the last), and
\* whether each layer's output width is the next layer's input width.
IsLinear(m) == m.kind = "Linear"
LinearOps(net) == SelectSeq(ForwardOps(net), IsLinear)
HasLinear(net) == Len(ForwardOps(net)) > 0 /\ IsLinear(ForwardOps(net)[1])
InWidth(net) == LinearOps(net)[1].in_features
OutWidth(net) == LinearOps(net)[Len(LinearOps(net))].out_features
Chained(net) ==
    \A i \in 1..(Len(LinearOps(net)) - 1) :
        LinearOps(net)[i].out_features = LinearOps(net)[i + 1].in_features
WellFormed(net) ==
    /\ Len(LinearOps(net)) > 0
    /\ Chained(net)
    /\ OutWidth(net) = output_size

\* The size-mismatch error of forward is torch's RuntimeError.
ShapeMismatchError == "RuntimeError"

\* C1 as stated: forward on a batch of shape (N, F), F the declared input
\* width of the network, raises nothing and returns a matrix of shape
\* exactly (N, C), C the declared output width.
C1_ForwardShape ==
    (last \in FwdCells /\ HasLinear(model) /\ Cols(FwdInput) = InWidth(model))
    => (err = "none" /\ Shape(ret) = << Rows(FwdInput), OutWidth(model) >>)

\* C2: forward on a batch whose feature width differs from the declared
\* input width fails with the size-mismatch error at the call and returns
\* no matrix.
C2_WidthMismatchRaises ==
    (last \in FwdCells /\ HasLinear(model) /\ Cols(FwdInput) # InWidth(model))
    => (err = ShapeMismatchError /\ ret = << >>)

\* A batch one column too wide was handed to forward, which raised.
C2_Witness ==
    /\ last = "forward"
    /\ HasLinear(model)
    /\ Cols(FwdInput) = input_size + 1
    /\ err = ShapeMismatchError
    /\ ret = << >>

\* The raw scores of a network the notebook builds: each hidden layer
\* followed by its activation, then the output layer, nothing after it.
Affine(l, x) == LinearApply(l, x).val
RawScores(net, x) ==
    IF net.kind = "Sequential"
    THEN Affine(net.mods[5],
                MapT(FRelu, Affine(net.mods[3], MapT(FRelu, Affine(net.mods[1], x)))))
    ELSE Affine(net.output, MapT(FSigmoid, Affine(net.hidden, x)))

\* C3 as stated: forward ends with the final affine layer and returns the raw
\* scores, no softmax applied.
C3_ReturnsRawScores ==
    (last \in FwdCells /\ err = "none") => ret = RawScores(model, FwdInput)

\* C4 as stated: construction rejects an empty or mis-chained list of
\* stages, so every network that exists is chained and ends in width C.
C4_ConstructionValidates ==
    /\ (last = "build" /\ ~WellFormed(model)) => err = "ConfigurationError"
    /\ err # "ConfigurationError" => WellFormed(model)

\* After a call of the softmax module.
Normalized == last = "softmax"

\* 1e-6
Tol == FDiv(One, FromInt(1000000))

\* probs.sum(dim=1) of one row, and whether it is 1 within Tol.
SumsToOne(p) == Abs(FSub(VecSum(p), One)) <= Tol
InUnit(p) == \A j \in 1..Len(p) : p[j] >= 0 /\ p[j] <= One

\* C5: every row of the softmax of a finite score matrix sums to 1 within
\* 1e-6, the sum taken over the class columns of the row.
C5_RowsSumToOne ==
    (Normalized /\ AllFinite(logits))
    => (Shape(probs) = Shape(logits)
        /\ \A i \in 1..Rows(logits) : SumsToOne(probs[i]))

\* A finite matrix of MaxRows rows and several unequal classes was
\* normalised.
C5_Witness ==
    /\ last = "softmax"
    /\ AllFinite(logits)
    /\ Shape(logits) = << MaxRows, output_size >>
    /\ probs[1][1] # probs[1][2]
    /\ probs[1] # probs[2]

\* C6: every entry of the softmax of a finite score matrix lies in [0, 1].
C6_EntriesInUnitInterval ==
    (Normalized /\ AllFinite(logits))
    => \A i \in 1..Rows(probs) : InUnit(probs[i])

\* Finite scores were normalised to entries inside the interval and, with a
\* single class, to its upper end.
C6_Witness ==
    /\ Normalized
    /\ AllFinite(logits)
    /\ \/ Cols(logits) = 1 /\ probs[1][1] = One
       \/ Cols(logits) > 1 /\ probs[1][1] > 0 /\ probs[1][1] < Ldexp(1, -2)

\* Two calls in a row on finite scores, the second on the scores of the
\* first with a scalar added to every entry; and such calls when every sum is
\* exact.
ShiftStep ==
    /\ last = "softmax" /\ last' = "softmax"
    /\ AllFinite(logits) /\ AllFinite(logits')
    /\ \E c \in Shifts : logits' = AddScalar(logits, c)
ExactSum(a, b) == FSub(FAdd(a, b), b) = a /\ FSub(FAdd(a, b), a) = b
ExactShift(x, y) ==
    \E c \in Shifts :
        /\ y = AddScalar(x, c)
        /\ \A i \in 1..Rows(x) : \A j \in 1..Cols(x) : ExactSum(x[i][j], c)

\* C7 as stated: softmax(x + c) equals softmax(x) for every finite score
\* matrix x and every scalar c.
C7_ShiftInvariant == [][ShiftStep => probs' = probs]_vars

\* C7, amended: softmax(x + c) equals softmax(x) whenever every sum x + c is
\* computed exactly; a sum that is rounded changes the differences between
\* the scores, and the result with them.
C7_ShiftInvariantWhenExact ==
    [][(ShiftStep /\ ExactShift(logits, logits')) => probs' = probs]_vars

\* Unequal finite scores were shifted exactly and normalised again.
C7_Witness ==
    /\ last = "softmax"
    /\ Cols(logits) > 1
    /\ probs[1][1] # probs[1][2]
    /\ \E x \in FiniteScores :
          /\ Shape(x) = Shape(logits)
          /\ ExactShift(x, logits)
          /\ probs = Softmax(x, 1).val

\* C8: a row of equal finite scores is normalised to 1/C in each of its C
\* columns.
UniformRow(v) == IsFinite(v[1]) /\ \A j \in 1..Len(v) : v[j] = v[1]
C8_UniformRow ==
    Normalized
    => \A i \in 1..Rows(logits) :
          UniformRow(logits[i])
          => \A j \in 1..Cols(logits) :
                probs[i][j] = FDiv(One, FromInt(Cols(logits)))

\* A row of several equal non-zero scores was normalised.
C8_Witness ==
    /\ last = "softmax"
    /\ Cols(logits) = output_size
    /\ logits[1][1] # 0
    /\ UniformRow(logits[1])

\* C9 as stated: softmax of a matrix with a non-finite entry fails with a
\* DataValidityError and returns nothing.
C9_NonFiniteRejected ==
    (Normalized /\ ~AllFinite(logits))
    => (err = "DataValidityError" /\ probs = << >>)

\* A row with +inf or NaN in it, or made of -inf only.
Poisoned(v) ==
    \/ \E j \in 1..Len(v) : v[j] = PInf \/ IsNaN(v[j])
    \/ \A j \in 1..Len(v) : v[j] = NInf

\* C10: two forward calls on the same parameters and the same input return
\* the same output, whatever cells ran before or between them: of the two
\* row ranges of a batch, evaluated at any two moments, ranges holding the
\* same rows and evaluated on the same network have the same result.
SameRange ==
    RangeOf(parts.batch, parts.cut, "lo") = RangeOf(parts.batch, parts.cut, "hi")
C11_ForwardFrame ==
    [][/\ last' = "batch" => (model' = model /\ images' = images)
       /\ last' = "forward" =>
             /\ model' = model
             /\ images' \in Batches
             /\ ret' = Forward(model, Slice(images', img_idx)).val
       /\ last' = "sequential" =>
             /\ \E seed \in Seeds : model' = Sequential(IndexNames, Stages(seed))
             /\ images' \in Batches
             /\ ret' = Forward(model', Slice(images', img_idx)).val
       /\ model' # model =>
             last' \in {"network", "fill", "normal", "zero", "sequential", "named", "build"}
      ]_vars

\* forward ran on a whole batch, and returned, on a network whose first bias
\* an initialisation cell had zeroed: the bias is still zero.
C11_Witness ==
    /\ last = "batch"
    /\ err = "none"
    /\ images.shape[1] = MaxRows
    /\ HasName(model, "fc1")
    /\ model.mods[1].bias = Fill(model.mods[1].bias, 0)
    /\ model.mods[3].bias # Fill(model.mods[3].bias, 0)

\* C12: softmax leaves the score matrix it is given entry for entry as it
\* was: after the call the argument is still one of the matrices handed in,
\* and what the call returned is the softmax of it.
C12_NormalizeFrame ==
    [][last' = "softmax" =>
          (logits' \in ScoreMatrices /\ probs' = Softmax(logits', 1).val)]_vars

\* A matrix of several rows and classes was normalised, with and without a
\* non-finite entry, and is not its own softmax.
C12_Witness ==
    /\ Normalized
    /\ Shape(logits) = << MaxRows, output_size >>
    /\ logits # probs
    /\ ~AllFinite(logits)

\* Every weight and bias of the network is zero; every entry of x is v.
AllEntries(x, v) == \A i \in 1..Rows(x) : \A j \in 1..Cols(x) : x[i][j] = v
AllZero(net) ==
    \A i \in 1..Len(LinearOps(net)) :
        /\ AllEntries(LinearOps(net)[i].weight, 0)
        /\ AllEntries(<< LinearOps(net)[i].bias >>, 0)
Uniform == FDiv(One, FromInt(output_size))

\* C13 as stated: with all weights and biases zero, forward returns all-zero
\* scores for every batch, and their softmax is 1/C in every column.
C13_ZeroNetworkScores ==
    (last \in FwdCells /\ err = "none" /\ AllZero(model))
    => (AllEntries(ret, 0) /\ AllEntries(Softmax(ret, 1).val, Uniform))

\* A forward call that follows a forward call that raised, and returns.
AfterFailure == last \in FwdCells /\ err # "none" /\ last' \in FwdCells /\ err' = "none"

WeightMatrix(l) == Transpose(l.weight)

\* A network that is one affine layer, and the layer.
OneLayer(net) == Len(ForwardOps(net)) = 1 /\ IsLinear(ForwardOps(net)[1])
Layer(net) == ForwardOps(net)[1]

\* Every weight and bias is a multiple of 2^-3 of magnitude at most 1: with
\* pixels that are multiples of 1/2 in [-1, 1], no product or sum is rounded.
SmallDyadic(v) == \E k \in -8..8 : v = Ldexp(k, -3)
ExactParams(net) ==
    \A n \in 1..Len(LinearOps(net)) :
        \A j \in 1..LinearOps(net)[n].out_features :
            /\ SmallDyadic(LinearOps(net)[n].bias[j])
            /\ \A k \in 1..LinearOps(net)[n].in_features :
                  SmallDyadic(LinearOps(net)[n].weight[j][k])

\* The finite number a as a multiple of 2^-s: whether it is one, and the
\* integer a * 2^s.
IsExact(a, s) ==
    /\ IsFinite(a)
    /\ \/ a = 0
       \/ Expo(Abs(a)) + s >= 0
       \/ /\ Expo(Abs(a)) + s > -MantBits
          /\ Mant(Abs(a)) % Pow2(-(Expo(Abs(a)) + s)) = 0
Exact(a, s) ==
    IF a = 0 THEN 0
    ELSE IF Expo(Abs(a)) + s >= 0 THEN Sgn(a) * Mant(Abs(a)) * Pow2(Expo(Abs(a)) + s)
    ELSE Sgn(a) * (Mant(Abs(a)) \div Pow2(-(Expo(Abs(a)) + s)))

\* The pixels are multiples of 2^-1 and the parameters the model builds
\* multiples of 2^-ParamScale; in integers, the sum over k <= n of
\* u[k] * W[k][j], in units of 2^-SumScale.
ParamScale == MantBits - 1
SumScale == ParamScale + 1
RECURSIVE IntSumProd(_, _, _, _)
IntSumProd(u, W, j, n) ==
    IF n = 0 THEN 0
    ELSE IntSumProd(u, W, j, n - 1) + Exact(u[n], 1) * Exact(W[n][j], ParamScale)

\* Entry [i, j] of out is exactly (sum over k of x[i,k] * Weight[k,j]) +
\* Bias[j], computed in integers.
EntryIsSum(l, x, out, i, j) ==
    /\ IsExact(out[i][j], SumScale)
    /\ Exact(out[i][j], SumScale)
         = IntSumProd(x[i], WeightMatrix(l), j, Cols(x)) + 2 * Exact(l.bias[j], ParamScale)

\* What C15 says of the layer whatever its parameters: it raises nothing,
\* the output has shape (N, F_out), and row i is the layer's output for
\* input row i alone.
AffineShape ==
    /\ err = "none"
    /\ Shape(ret) = << Rows(FwdInput), Layer(model).out_features >>
    /\ \A i \in 1..Rows(FwdInput) : ret[i] = Forward(model, << FwdInput[i] >>).val[1]

\* forward ran on a network that is one affine layer, on a batch of the
\* width of the layer.
OnAffineLayer ==
    last \in FwdCells /\ OneLayer(model) /\ Cols(FwdInput) = Layer(model).in_features

\* C15 as stated: an affine layer of widths (F_in, F_out) maps every
\* (N, F_in) input, raising nothing, to the (N, F_out) matrix whose entry
\* [i, j] equals (sum over k of input[i,k] * Weight[k,j]) + Bias[j], the same
\* bias in every row, and row i depends on input row i only.
C15_AffineLayer ==
    OnAffineLayer
    => /\ AffineShape
       /\ \A i \in 1..Rows(FwdInput) : \A j \in 1..Layer(model).out_features :
             EntryIsSum(Layer(model), FwdInput, ret, i, j)

\* C15, amended: entry [i, j] is the sum of products plus the bias as
\* float32 computes it, which is the sum itself whenever no product or sum
\* is rounded; the rest as stated.
C15_AffineLayerWhenExact ==
    OnAffineLayer
    => /\ AffineShape
       /\ ExactParams(model)
          => \A i \in 1..Rows(FwdInput) : \A j \in 1..Layer(model).out_features :
                EntryIsSum(Layer(model), FwdInput, ret, i, j)

\* A batch of MaxRows different rows went through a single affine layer
\* whose products and sums are not rounded.
C15_Witness ==
    /\ last = "batch"
    /\ OneLayer(model)
    /\ ExactParams(model)
    /\ err = "none"
    /\ Rows(ret) = MaxRows
    /\ ret[1] # ret[2]

\* C16: softmax has no interaction between rows: two matrices of the same
\* shape that agree on row i have softmax outputs that agree on row i,
\* whatever their other rows hold, and row i of the output is the softmax of
\* row i taken alone as a (1, C) matrix.
C16_RowsIndependent ==
    [][/\ (last = "softmax" /\ last' = "softmax" /\ Shape(logits') = Shape(logits))
          => \A i \in 1..Rows(logits) :
                logits'[i] = logits[i] => probs'[i] = probs[i]
       /\ last' = "softmax"
          => \A i \in 1..Rows(logits') :
                probs'[i] = Normalize(<< logits'[i] >>).val[1]
      ]_vars

\* A matrix with a non-finite entry in its last row was normalised: its
\* first row, finite, came back as a distribution.
C16_Witness ==
    /\ last = "softmax"
    /\ Shape(logits) = << MaxRows, output_size >>
    /\ Poisoned(logits[MaxRows])
    /\ ~Poisoned(logits[1])
    /\ InUnit(probs[1])
    /\ SumsToOne(probs[1])
    /\ probs[1][1] # probs[1][2]

\* Both row ranges of the batch have been evaluated.
BothDone == parts.cut > 0 /\ parts.done = Ranges

\* C17: a batch evaluated as two disjoint row ranges, in either order, the
\* results joined in row order, gives what one forward on the whole batch
\* gives, unless a range was evaluated after the parameters had been changed:
\* that is the only way the joined result differs.
C17_RowRangesCompose ==
    (BothDone /\ ~parts.dirty)
    => parts.lo \o parts.hi = Forward(parts.base, parts.batch).val

\* Both ranges of a batch of MaxRows rows were evaluated, the upper one
\* first, on unchanged parameters.
C17_Witness ==
    /\ BothDone
    /\ ~parts.dirty
    /\ last = "range"
    /\ ret = parts.lo
    /\ Rows(parts.batch) = MaxRows
    /\ parts.lo # parts.hi

\* A network of two affine layers with the identity between them, and one
\* with ReLU between them; the two affine layers of either.
IdentityNet(net) ==
    net.kind = "Sequential" /\ Len(net.mods) = 2
    /\ IsLinear(net.mods[1]) /\ IsLinear(net.mods[2])
ReluNet(net) ==
    net.kind = "Sequential" /\ Len(net.mods) = 3
    /\ IsLinear(net.mods[1]) /\ net.mods[2].kind = "ReLU" /\ IsLinear(net.mods[3])
    /\ net.mods[1].out_features = net.mods[3].in_features

\* The single affine layer two affine layers collapse to: its weight the
\* product of their weights, its bias the first bias carried through the
\* second layer plus the second bias.
Collapse(l1, l2) ==
    [kind |-> "Linear", in_features |-> l1.in_features, out_features |-> l2.out_features,
     weight |-> [j \in 1..l2.out_features |->
                    [k \in 1..l1.in_features |->
                        Dot(l2.weight[j], Transpose(l1.weight)[k])]],
     bias |-> [j \in 1..l2.out_features |->
                  FAdd(Dot(l2.weight[j], l1.bias), l2.bias[j])]]
Collapsed(net) == Collapse(net.mods[1], net.mods[Len(net.mods)])

\* What forward returned for a range is what the collapsed layer of the
\* network it was evaluated on gives for its rows.
RangeCollapses(w) ==
    parts[w] = Affine(Collapsed(parts.net[w]), RangeOf(parts.batch, parts.cut, w))

\* A range with a row whose first hidden unit is negative before the ReLU.
CutByRelu(w) ==
    \E i \in 1..Rows(RangeOf(parts.batch, parts.cut, w)) :
        \E j \in 1..parts.net[w].mods[1].out_features :
            Affine(parts.net[w].mods[1], RangeOf(parts.batch, parts.cut, w))[i][j] < 0

\* C18 as stated: two affine layers with the identity between them compute,
\* for every batch, the scores of the one collapsed affine layer; with ReLU
\* between them they do not for every choice of parameters: not for those
\* that make a hidden unit negative, which ReLU cuts to zero.
C18_IdentityCollapses ==
    \A w \in parts.done :
        /\ IdentityNet(parts.net[w]) => RangeCollapses(w)
        /\ (ReluNet(parts.net[w]) /\ CutByRelu(w)) => ~RangeCollapses(w)

\* C18, amended: the scores are those of the collapsed layer whenever no
\* product or sum of either computation is rounded; with rounding they agree
\* only up to the rounding error.  The part on ReLU stands.
C18_IdentityCollapsesWhenExact ==
    \A w \in parts.done :
        /\ (IdentityNet(parts.net[w]) /\ ExactParams(parts.net[w])) => RangeCollapses(w)
        /\ (ReluNet(parts.net[w]) /\ CutByRelu(w)) => ~RangeCollapses(w)

\* Of the two ranges of one batch, one went through two randomly initialised
\* affine layers with nothing between them and came back as the collapsed
\* layer gives it, the other through two layers with ReLU between them and
\* came back different.
C18_Witness ==
    /\ parts.done = Ranges
    /\ IdentityNet(parts.net.lo)
    /\ ExactParams(parts.net.lo)
    /\ parts.lo # << >>
    /\ RangeCollapses("lo")
    /\ ReluNet(parts.net.hi)
    /\ CutByRelu("hi")
    /\ parts.hi # << >>
    /\ ~RangeCollapses("hi")

\* The network of the other class with the same hidden and output layers:
\* operations as attributes for the functional one, and the reverse.
Twin(net) ==
    IF net.kind = "Network"
    THEN [kind |-> "NetworkF", hidden |-> net.hidden, output |-> net.output]
    ELSE [kind |-> "Network", hidden |-> net.hidden, output |-> net.output,
          sigmoid |-> Sigmoid, softmax |-> SoftmaxModule(1)]

\* The kinds and widths of the modules of a list, in order.
Layout(mods) ==
    [i \in 1..Len(mods) |->
        IF IsLinear(mods[i])
        THEN << "Linear", mods[i].in_features, mods[i].out_features >>
        ELSE << mods[i].kind >>]

\* C19: with the same hidden and output layers and the same batch, the
\* Network with its operations as attributes and the functional Network
\* return the same output (or raise the same error); the OrderedDict model
\* holds the stage list of the index-addressed model, in its order, with
\* parameters equal for equal draws, under names that are all different, and
\* its index 0 and its name fc1 select the same first affine layer.
C19_DefinitionsEquivalent ==
    /\ (last \in {"forward", "batch"} /\ model.kind \in {"Network", "NetworkF"})
       => /\ ret = Forward(Twin(model), FwdInput).val
          /\ err = Forward(Twin(model), FwdInput).err
    /\ (last = "named" /\ err = "none")
       => /\ \E seed \in Seeds : model.mods = Stages(seed)
          /\ Layout(model.mods) = Layout(Stages(0))
          /\ Len(model.names) = Len(model.mods)
          /\ \A i, j \in 1..Len(model.names) :
                model.names[i] = model.names[j] => i = j
          /\ HasName(model, "fc1")
          /\ IndexOf(model, "fc1") = 0 + 1
          /\ IsLinear(model.mods[IndexOf(model, "fc1")])

\* The OrderedDict model was built, six stages under six names.
C19_Witness ==
    /\ last = "named"
    /\ err = "none"
    /\ model.kind = "Sequential"
    /\ Len(model.names) = 6
    /\ model.names[1] = "fc1"
    /\ model.names[6] = "softmax"
=============================================================================
